---------------------------- MODULE Spec2Model ----------------------------
(* A model of the AIKEN question pipeline: the chunker and the Aiken codec  *)
(* of utils.py, the strict parser of question_generator.py, the relevance   *)
(* matcher and the GIFT converter of gift_converter.py / second_passage.py. *)
(* A Python str is a sequence of one-character strings; Python positions    *)
(* are 0-based and kept 0-based here (At, Slice).                           *)
EXTENDS Integers, Sequences, FiniteSets, TLC

VARIABLES
    pc,               \* position of the running function
    text,             \* chunk_text: the text argument
    chunk_size,       \* chunk_text: the chunk_size argument
    current_pos,      \* chunk_text: current_pos
    chunks,           \* chunk_text: the list being returned
    slices,           \* history: <<start, stop>> of every text[start:stop] cut
    args_overlap,     \* main.py: args.overlap (--overlap), which no code reads
    records,          \* save_questions: the questions argument
    file,             \* the content of the questions file
    lines,            \* load_questions: lines
    i,                \* load_questions: i
    current_question, \* load_questions: current_question
    questions,        \* load_questions: the list being returned
    gen_calls,        \* generate_questions: calls made on the generator so far
    gen_outcome,      \* generate_questions: how the last call ended
    response_content, \* generate_questions: response_content, "" while unset
    gen_questions,    \* generate_questions: questions (the blocks split off)
    parsed_questions, \* generate_questions: parsed_questions
    total_valid_questions, \* QuestionGenerator.total_valid_questions
    total_attempts,   \* QuestionGenerator.total_attempts
    large_chunks,     \* main: large_chunks
    q_index,          \* main: the questions processed so far (enumerate)
    most_relevant_chunk, \* main: index in large_chunks of the chunk held, 0 for None
    max_overlap,      \* main: max_overlap
    context,          \* the context argument of the last service-backed call
    feedbacks,        \* generate_feedback: feedbacks, when the parse reached line 155
    correct_feedback, \* convert_to_gift: correct_feedback
    wrong_feedback,   \* convert_to_gift: wrong_feedback
    gift_questions,   \* gift_converter.main: gift_questions
    improved_questions, \* second_passage.main: improved_questions
    service_calls,    \* history: the requests.post calls the loop has made
    text_chunks,      \* main.py: text_chunks
    run_i,            \* main.py: the chunks processed so far (enumerate)
    all_questions,    \* main.py: all_questions
    total_questions,  \* main.py: total_questions
    total_chunks,     \* main.py: total_chunks
    warned            \* history: "No questions were generated" was logged

chunkVars == <<text, chunk_size, current_pos, chunks, slices, args_overlap>>
codecVars == <<records, file, lines, i, current_question, questions>>
genVars == <<gen_calls, gen_outcome, response_content, gen_questions,
             parsed_questions,
             total_valid_questions, total_attempts>>
mainVars == <<large_chunks, q_index, most_relevant_chunk, max_overlap, context,
              feedbacks, correct_feedback, wrong_feedback, gift_questions,
              improved_questions, service_calls>>
runVars == <<text_chunks, run_i, all_questions, total_questions, total_chunks,
             warned>>
vars == <<pc, chunkVars, codecVars, genVars, mainVars, runVars>>
otherThanChunk == <<codecVars, genVars, mainVars, runVars>>
otherThanCodec == <<chunkVars, genVars, mainVars, runVars>>
otherThanGen == <<chunkVars, codecVars, mainVars, runVars>>
otherThanMain == <<chunkVars, genVars, runVars, records, file, lines, i,
                   current_question, questions>>

---------------------------------------------------------------------------
(* Bounds of the model                                                      *)
MaxTextLen == 5
MaxChunkSize == 3
MaxRecords == 2
MaxBlocks == 2
MaxCalls == 3
MaxChunks == 2

---------------------------------------------------------------------------
(* Python str primitives                                                    *)
NL == "\n"
Whitespace == {" ", NL}

Min(a, b) == IF a < b THEN a ELSE b
Max(a, b) == IF a > b THEN a ELSE b

\* s[i] for a 0-based i inside the string
At(s, n) == s[n + 1]

\* a slice index k of a string of length n: a negative index counts from
\* the end, and the result is clamped to 0 .. n
PyIndex(k, n) == IF k < 0 THEN Max(k + n, 0) ELSE Min(k, n)

\* s[a:b]
Slice(s, a, b) == SubSeq(s, PyIndex(a, Len(s)) + 1, PyIndex(b, Len(s)))

RECURSIVE LStrip(_)
LStrip(s) ==
    IF s = <<>> THEN s
    ELSE IF Head(s) \in Whitespace THEN LStrip(Tail(s)) ELSE s

RECURSIVE RStrip(_)
RStrip(s) ==
    IF s = <<>> THEN s
    ELSE IF s[Len(s)] \in Whitespace THEN RStrip(SubSeq(s, 1, Len(s) - 1)) ELSE s

\* str.strip()
Strip(s) == RStrip(LStrip(s))

\* s.startswith(p)
StartsWith(s, p) == Len(s) >= Len(p) /\ SubSeq(s, 1, Len(p)) = p

\* s.rfind(sub, start, end): the highest 0-based index h with
\* start <= h, h + len(sub) <= end and s[h:h+len(sub)] = sub, or -1
\* (start and end taken as slice indexes)
RFind(s, sub, start, end) ==
    LET hits == {h \in PyIndex(start, Len(s)) .. (PyIndex(end, Len(s)) - Len(sub)) :
                    SubSeq(s, h + 1, h + Len(sub)) = sub}
    IN  IF hits = {} THEN -1
        ELSE CHOOSE h \in hits : \A j \in hits : j <= h

RECURSIVE Flatten(_)
\* ''.join(list)
Flatten(ss) == IF ss = <<>> THEN <<>> ELSE Head(ss) \o Flatten(Tail(ss))

---------------------------------------------------------------------------
(* utils.chunk_text                                                         *)
TextAlphabet == {"a", ".", "?", " "}
Texts == UNION {[1 .. k -> TextAlphabet] : k \in 0 .. MaxTextLen}
ChunkSizes == 1 .. MaxChunkSize

\* end = min(current_pos + chunk_size, text_length)
WindowEnd == Min(current_pos + chunk_size, Len(text))

\* a variant that looks for '. ' only
SentenceSplitPeriodOnly == RFind(text, <<".", " ">>, current_pos, WindowEnd)

\* split_pos = max(rfind('. '), rfind('? '), rfind('! ')) over [current_pos, end)
SentenceSplit ==
    Max(RFind(text, <<".", " ">>, current_pos, WindowEnd),
        Max(RFind(text, <<"?", " ">>, current_pos, WindowEnd),
            RFind(text, <<"!", " ">>, current_pos, WindowEnd)))

\* variants of the cut: a fallback one past end, an advance that skips a
\* character, an advance that stays on the boundary
SplitPosPastEnd == IF SentenceSplit = -1 THEN WindowEnd + 1 ELSE SentenceSplit
NextPosSkip == (IF SentenceSplit = -1 THEN WindowEnd ELSE SentenceSplit) + 2
NextPosStay == IF SentenceSplit = -1 THEN WindowEnd ELSE SentenceSplit

\* a variant that trims the final chunk like the others
RestStripped == Strip(Slice(text, current_pos, Len(text)))

\* text[current_pos:]
Rest == Slice(text, current_pos, Len(text))

\* split_pos after the fallback "if split_pos == -1: split_pos = end"
SplitPos == IF SentenceSplit = -1 THEN WindowEnd ELSE SentenceSplit

\* current_pos = split_pos + 1
NextPos == SplitPos + 1

\* the variables of the other functions, at rest
CodecIdle ==
    /\ records = <<>>
    /\ file = <<>>
    /\ lines = <<>>
    /\ i = 0
    /\ current_question = [none |-> TRUE]   \* None
    /\ questions = <<>>

MainIdle ==
    /\ large_chunks = <<>>
    /\ q_index = 0
    /\ most_relevant_chunk = 0
    /\ max_overlap = 0
    /\ context = <<>>
    /\ feedbacks = [none |-> TRUE]
    /\ correct_feedback = <<>>
    /\ wrong_feedback = <<>>
    /\ gift_questions = <<>>
    /\ improved_questions = <<>>
    /\ service_calls = 0

RunIdle ==
    /\ text_chunks = <<>>
    /\ run_i = 0
    /\ all_questions = <<>>
    /\ total_questions = 0
    /\ total_chunks = 0
    /\ warned = FALSE

GenIdle ==
    /\ gen_calls = 0
    /\ gen_outcome = "none"
    /\ response_content = <<>>
    /\ gen_questions = <<>>
    /\ parsed_questions = <<>>
    /\ total_valid_questions = 0
    /\ total_attempts = 0

ChunkIdle ==
    /\ text = <<>>
    /\ chunk_size = 1
    /\ current_pos = 0
    /\ chunks = <<>>
    /\ slices = <<>>
    /\ args_overlap = 0

InitChunk ==
    /\ pc = "chunk"
    /\ CodecIdle
    /\ GenIdle
    /\ MainIdle
    /\ RunIdle
    /\ text \in Texts
    /\ chunk_size \in ChunkSizes
    /\ current_pos = 0
    /\ chunks = <<>>
    /\ slices = <<>>
    /\ args_overlap = 0

\* the branch "current_pos + chunk_size >= text_length": append the rest, break
ChunkFinal ==
    /\ pc = "chunk"
    /\ current_pos < Len(text)
    /\ current_pos + chunk_size >= Len(text)
    /\ chunks' = Append(chunks, Rest)
    /\ slices' = Append(slices, <<current_pos, Len(text)>>)
    /\ pc' = "done"
    /\ UNCHANGED <<text, chunk_size, current_pos, args_overlap, otherThanChunk>>

\* one iteration that cuts at a sentence end or, failing that, at end
ChunkSplit ==
    /\ pc = "chunk"
    /\ current_pos < Len(text)
    /\ current_pos + chunk_size < Len(text)
    /\ chunks' = Append(chunks, Strip(Slice(text, current_pos, SplitPos + 1)))
    /\ slices' = Append(slices, <<current_pos, SplitPos + 1>>)
    /\ current_pos' = NextPos
    /\ UNCHANGED <<pc, text, chunk_size, args_overlap, otherThanChunk>>

\* the while condition fails: return chunks
ChunkReturn ==
    /\ pc = "chunk"
    /\ current_pos >= Len(text)
    /\ pc' = "done"
    /\ UNCHANGED <<chunkVars, otherThanChunk>>

NextChunk == ChunkFinal \/ ChunkSplit \/ ChunkReturn

SpecChunk == InitChunk /\ [][NextChunk]_vars

\* chunk_text runs on: a call that can take a step takes it
SpecChunkFair == InitChunk /\ [][NextChunk]_vars /\ WF_vars(NextChunk)

(* chunk_text on texts that hold line breaks, in a run of main.py that was  *)
(* given --overlap                                                          *)
LineTexts == UNION {[1 .. k -> {"a", ".", " ", NL}] : k \in 0 .. MaxTextLen}

InitChunkMain ==
    /\ pc = "chunk"
    /\ CodecIdle
    /\ GenIdle
    /\ MainIdle
    /\ RunIdle
    /\ text \in LineTexts
    /\ chunk_size \in ChunkSizes
    /\ args_overlap \in 0 .. (chunk_size - 1)
    /\ current_pos = 0
    /\ chunks = <<>>
    /\ slices = <<>>

SpecChunkMain == InitChunkMain /\ [][NextChunk]_vars

(* chunk_text called with any chunk_size, positive or not. With a negative  *)
(* chunk_size the loop never ends: the model follows it for MaxTextLen + 1  *)
(* chunks.                                                                  *)
AnySizes == (0 - MaxChunkSize) .. MaxChunkSize

InitChunkAnySize ==
    /\ pc = "chunk"
    /\ CodecIdle
    /\ GenIdle
    /\ MainIdle
    /\ RunIdle
    /\ text \in Texts
    /\ chunk_size \in AnySizes
    /\ args_overlap = 0
    /\ current_pos = 0
    /\ chunks = <<>>
    /\ slices = <<>>

ChunkSplitCapped == Len(chunks) <= MaxTextLen /\ ChunkSplit

NextChunkAnySize == ChunkFinal \/ ChunkSplitCapped \/ ChunkReturn

SpecChunkAnySize == InitChunkAnySize /\ [][NextChunkAnySize]_vars

---------------------------------------------------------------------------
(* Claims about chunk_text                                                  *)

RECURSIVE NonWs(_)
\* the non-whitespace characters of s, in order
NonWs(s) ==
    IF s = <<>> THEN <<>>
    ELSE IF Head(s) \in Whitespace THEN NonWs(Tail(s))
         ELSE <<Head(s)>> \o NonWs(Tail(s))

\* c is s with nothing but whitespace removed from its two ends
TrimmedFrom(c, s) ==
    \E p \in 0 .. Len(s) : \E q \in p .. Len(s) :
        /\ c = SubSeq(s, p + 1, q)
        /\ \A j \in (1 .. p) \cup ((q + 1) .. Len(s)) : s[j] \in Whitespace

\* C2 (chunk coverage): the slices cut so far are non-empty, contiguous from
\* position 0 and inside the text; every chunk is its slice less whitespace at
\* its two ends; when chunk_text returns, the slices end at len(text) and the
\* chunks hold exactly the non-whitespace characters of the text, in order.
C2_ChunkCoverage ==
    /\ Len(chunks) = Len(slices)
    /\ \A k \in 1 .. Len(slices) :
        /\ slices[k][1] = (IF k = 1 THEN 0 ELSE slices[k - 1][2])
        /\ slices[k][1] < slices[k][2]
        /\ slices[k][2] <= Len(text)
        /\ TrimmedFrom(chunks[k], Slice(text, slices[k][1], slices[k][2]))
    /\ pc = "chunk" =>
        /\ current_pos = (IF slices = <<>> THEN 0 ELSE slices[Len(slices)][2])
        /\ NonWs(Flatten(chunks)) = NonWs(Slice(text, 0, current_pos))
    /\ pc = "done" =>
        /\ (IF slices = <<>> THEN 0 ELSE slices[Len(slices)][2]) = Len(text)
        /\ NonWs(Flatten(chunks)) = NonWs(text)

\* C2 witness: a finished run of several chunks in which trimming removed
\* whitespace at a chunk boundary
C2_Witness ==
    /\ pc = "done"
    /\ Len(chunks) >= 2
    /\ Flatten(chunks) # text
    /\ NonWs(text) # <<>>

\* C3 as stated: with len(text) > N no chunk is longer than N + 1 and the
\* last chunk is no longer than N.
C3_LastChunkAtMostN ==
    (pc = "done" /\ Len(text) > chunk_size) =>
        /\ \A k \in 1 .. Len(chunks) : Len(chunks[k]) <= chunk_size + 1
        /\ Len(chunks[Len(chunks)]) <= chunk_size

\* C3 (chunk size bound), amended: no chunk is longer than N + 1, a chunk of
\* N + 1 characters is a hard cut text[pos : pos+N+1], and the last chunk is no
\* longer than N unless the text ends exactly at a hard cut (the last slice
\* is text[len-N-1 : len]).
C3_ChunkSizeBound ==
    Len(text) > chunk_size =>
        /\ \A k \in 1 .. Len(chunks) :
            /\ Len(chunks[k]) <= chunk_size + 1
            /\ Len(chunks[k]) = chunk_size + 1 =>
                  slices[k] = <<slices[k][1], slices[k][1] + chunk_size + 1>>
        /\ (pc = "done" /\ chunks # <<>>) =>
            \/ Len(chunks[Len(chunks)]) <= chunk_size
            \/ slices[Len(slices)] = <<Len(text) - chunk_size - 1, Len(text)>>

\* C3 witness: a finished run over a text longer than N with a hard-cut chunk
\* of N + 1 characters followed by a final remainder
C3_Witness ==
    /\ pc = "done"
    /\ Len(text) > chunk_size
    /\ Len(chunks) >= 2
    /\ \E k \in 1 .. Len(chunks) - 1 : Len(chunks[k]) = chunk_size + 1
    /\ Len(chunks[Len(chunks)]) <= chunk_size

\* C17 (short and empty input): chunk_text of the empty text returns the
\* empty list, and of a non-empty text no longer than chunk_size returns one
\* chunk, the whole text untrimmed.
C17_ShortAndEmpty ==
    pc = "done" =>
        /\ text = <<>> => chunks = <<>>
        /\ (text # <<>> /\ Len(text) <= chunk_size) => chunks = <<text>>

\* C17 witness: a call on a text shorter than chunk_size that starts and
\* ends with a blank returned that text as its only chunk
C17_Witness ==
    /\ pc = "done"
    /\ Len(text) >= 2 /\ Len(text) < chunk_size
    /\ text[1] = " " /\ text[Len(text)] = " "
    /\ chunks = <<text>>

\* C18 (termination without failure): every call of chunk_text returns; an
\* iteration that stays in the loop moves current_pos strictly forward, and
\* never past the end of the text; no more than len(text) chunks are made.
C18_Termination ==
    /\ <>(pc = "done")
    /\ [][(pc' = "chunk") => (current_pos' > current_pos
                                /\ current_pos' <= Len(text))]_vars
    /\ [](Len(chunks) <= Len(text))

\* C18 witness: a call that went three times through the loop has returned
C18_Witness ==
    /\ pc = "done"
    /\ Len(chunks) >= 3
    /\ current_pos > 0

\* C19 as stated: with the overlap given to main.py, every chunk after the
\* first starts overlap characters before the end of the chunk before it,
\* and never before the start of that chunk.
C19_OverlapStart ==
    \A k \in 2 .. Len(slices) :
        slices[k][1] = Max(slices[k - 1][2] - args_overlap, slices[k - 1][1])

\* the positions of a window [start, start + chunk_size) that hold a line
\* break, a sentence terminator followed by whitespace, the first of two
\* line breaks in a row (the blank line before a heading)
NewlinesIn(start) ==
    {h \in start .. (Min(start + chunk_size, Len(text)) - 1) : text[h + 1] = NL}
TerminatorsIn(start) ==
    {h \in start .. (Min(start + chunk_size, Len(text)) - 1) :
        /\ text[h + 1] \in {".", "?", "!"}
        /\ h + 2 <= Len(text) /\ text[h + 2] \in Whitespace}
BlankLinesIn(start) ==
    {h \in NewlinesIn(start) : h + 2 <= Len(text) /\ text[h + 2] = NL}

\* C20 as stated: a cut made in a window that holds no structural marker
\* and no sentence terminator followed by whitespace, but holds a line
\* break, is made at the rightmost line break of the window: the slice ends
\* right after it.
C20_NewlineFallback ==
    \A k \in 1 .. Len(slices) :
        (/\ slices[k][1] + chunk_size < Len(text)
         /\ BlankLinesIn(slices[k][1]) = {}
         /\ TerminatorsIn(slices[k][1]) = {}
         /\ NewlinesIn(slices[k][1]) # {}) =>
            \E h \in NewlinesIn(slices[k][1]) :
                /\ \A j \in NewlinesIn(slices[k][1]) : j <= h
                /\ slices[k][2] = h + 1

\* C21 as stated: a call of chunk_text with chunk_size <= 0 on a non-empty
\* text signals a failure: it builds no chunk and does not return a list.
C21_NonPositiveSizeFails ==
    (chunk_size <= 0 /\ text # <<>>) => (chunks = <<>> /\ pc # "done")

\* the positions b of a window [start, start + chunk_size) that hold '.',
\* '?' or '!' with a space right after, the space inside the window too
BoundariesIn(start) ==
    {b \in start .. (start + chunk_size - 2) :
        /\ b + 2 <= Len(text)
        /\ text[b + 1] \in {".", "?", "!"}
        /\ text[b + 2] = " "}

---------------------------------------------------------------------------
(* utils.save_questions and utils.load_questions                            *)

\* Python None where a str is expected (a value no string equals), and where
\* a question dict is expected
None == <<"None">>
NoQuestion == [none |-> TRUE]
Letters == <<"A", "B", "C", "D", "E", "F">>

\* chr(65 + k) for a 0-based k
Chr65(k) == Letters[k + 1]

\* f"{value}" of a str or of None
Format(v) == IF v = None THEN <<"N", "o", "n", "e">> ELSE v

\* s.find(c) + 1: the 1-based position of the first c, or 0
FirstIndex(s, c) ==
    IF \E k \in 1 .. Len(s) : s[k] = c
    THEN CHOOSE k \in 1 .. Len(s) : s[k] = c /\ \A j \in 1 .. (k - 1) : s[j] # c
    ELSE 0

RECURSIVE Split(_, _)
\* s.split(c) for a one-character separator
Split(s, c) ==
    LET k == FirstIndex(s, c)
    IN  IF k = 0 THEN <<s>>
        ELSE <<SubSeq(s, 1, k - 1)>> \o Split(SubSeq(s, k + 1, Len(s)), c)

RECURSIVE ReadLines(_)
\* f.readlines(): the lines of the file, each with its line end
ReadLines(f) ==
    LET k == FirstIndex(f, NL)
    IN  IF f = <<>> THEN <<>>
        ELSE IF k = 0 THEN <<f>>
        ELSE <<SubSeq(f, 1, k)>> \o ReadLines(SubSeq(f, k + 1, Len(f)))

AnswerPrefix == <<"A", "N", "S", "W", "E", "R", ":">>
OptionPrefixes == {<<"A", ".">>, <<"B", ".">>, <<"C", ".">>, <<"D", ".">>}

\* a variant without the space after the prefix
OptionLinesNoSpace(options) ==
    Flatten([k \in 1 .. Len(options) |->
                <<Chr65(k - 1), ".">> \o Format(options[k]) \o <<NL>>])

\* f"{chr(65 + i)}. {option}\n" for every option, in order
OptionLines(options) ==
    Flatten([k \in 1 .. Len(options) |->
                <<Chr65(k - 1), ".", " ">> \o Format(options[k]) \o <<NL>>])

\* the text save_questions writes for one question
BlockText(q) ==
    Format(q.question) \o <<NL>>
      \o OptionLines(q.options)
      \o AnswerPrefix \o <<" ">> \o Format(q.correct) \o <<NL, NL>>

\* the whole file save_questions writes
SavedText(qs) == Flatten([k \in 1 .. Len(qs) |-> BlockText(qs[k])])

\* second_passage.save_validated_questions: the option lines of a question
ValidatedOptionLines(options) ==
    Flatten([k \in 1 .. Len(options) |->
                <<Chr65(k - 1), ".", " ">> \o Format(options[k]) \o <<NL>>])

\* the text save_validated_questions writes for one question
ValidatedBlockText(q) ==
    Format(q.question) \o <<NL>>
      \o ValidatedOptionLines(q.options)
      \o AnswerPrefix \o <<" ">> \o Format(q.correct) \o <<NL, NL>>

\* the whole file save_validated_questions writes
SavedValidatedText(qs) ==
    Flatten([k \in 1 .. Len(qs) |-> ValidatedBlockText(qs[k])])

\* line = lines[i].strip()
Line == Strip(lines[i + 1])

IsAnswerLine(l) == StartsWith(l, AnswerPrefix)
IsOptionLine(l) == \E p \in OptionPrefixes : StartsWith(l, p)

\* a variant that takes the field before the colon
AnswerValueFirstField(l) == Strip(Split(l, ":")[1])

\* line.split(':')[1].strip()
AnswerValue(l) == Strip(Split(l, ":")[2])

\* a variant that keeps the whitespace around the option text
OptionTextUnstripped(l) == Slice(l, 2, Len(l))

\* line[2:].strip()
OptionText(l) == Strip(Slice(l, 2, Len(l)))

\* questions after "if current_question and len(options) == 4: append"
Flushed(cq, qs) ==
    IF cq # NoQuestion /\ Len(cq.options) = 4 THEN Append(qs, cq) ELSE qs

\* save_questions(records, file)
Save ==
    /\ pc = "save"
    /\ file' = SavedText(records)
    /\ pc' = "open"
    /\ UNCHANGED <<records, lines, i, current_question, questions, otherThanCodec>>

\* save_validated_questions(records, file)
SaveValidated ==
    /\ pc = "save"
    /\ file' = SavedValidatedText(records)
    /\ pc' = "open"
    /\ UNCHANGED <<records, lines, i, current_question, questions, otherThanCodec>>

\* load_questions: read the lines, initialise the scan
LoadOpen ==
    /\ pc = "open"
    /\ lines' = ReadLines(file)
    /\ i' = 0
    /\ current_question' = NoQuestion
    /\ questions' = <<>>
    /\ pc' = "load"
    /\ UNCHANGED <<records, file, otherThanCodec>>

\* a blank line: flush the record, reset the accumulator
LoadBlank ==
    /\ pc = "load" /\ i < Len(lines)
    /\ Line = <<>>
    /\ questions' = Flushed(current_question, questions)
    /\ current_question' = NoQuestion
    /\ i' = i + 1
    /\ UNCHANGED <<pc, records, file, lines, otherThanCodec>>

\* a variant that flushes the record in progress before it starts the next
LoadQuestionFlushing ==
    /\ pc = "load" /\ i < Len(lines)
    /\ Line # <<>>
    /\ ~IsOptionLine(Line) /\ ~IsAnswerLine(Line)
    /\ questions' = Flushed(current_question, questions)
    /\ current_question' = [question |-> Line, options |-> <<>>, correct |-> None]
    /\ i' = i + 1
    /\ UNCHANGED <<pc, records, file, lines, otherThanCodec>>

\* a line with neither an option prefix nor ANSWER: starts a record
LoadQuestion ==
    /\ pc = "load" /\ i < Len(lines)
    /\ Line # <<>>
    /\ ~IsOptionLine(Line) /\ ~IsAnswerLine(Line)
    /\ current_question' = [question |-> Line, options |-> <<>>, correct |-> None]
    /\ i' = i + 1
    /\ UNCHANGED <<pc, records, file, lines, questions, otherThanCodec>>

\* an ANSWER: line sets correct when a record is open; split(':')[1] raises
\* IndexError on a line without a second field
LoadAnswer ==
    /\ pc = "load" /\ i < Len(lines)
    /\ IsAnswerLine(Line)
    /\ IF current_question # NoQuestion /\ Len(Split(Line, ":")) < 2
       THEN pc' = "raised" /\ UNCHANGED current_question
       ELSE /\ pc' = pc
            /\ current_question' =
                  IF current_question # NoQuestion
                  THEN [current_question EXCEPT !.correct = AnswerValue(Line)]
                  ELSE current_question
    /\ i' = i + 1
    /\ UNCHANGED <<records, file, lines, questions, otherThanCodec>>

\* an option line appends its text when a record is open; line[1] raises
\* IndexError on a line of one character
LoadOption ==
    /\ pc = "load" /\ i < Len(lines)
    /\ IsOptionLine(Line)
    /\ IF current_question # NoQuestion /\ Len(Line) < 2
       THEN pc' = "raised" /\ UNCHANGED current_question
       ELSE /\ pc' = pc
            /\ current_question' =
                  IF current_question # NoQuestion
                  THEN [current_question EXCEPT
                            !.options = Append(current_question.options,
                                               OptionText(Line))]
                  ELSE current_question
    /\ i' = i + 1
    /\ UNCHANGED <<records, file, lines, questions, otherThanCodec>>

\* end of the lines: flush the last record, return questions
LoadEnd ==
    /\ pc = "load" /\ i >= Len(lines)
    /\ questions' = Flushed(current_question, questions)
    /\ pc' = "loaded"
    /\ UNCHANGED <<records, file, lines, i, current_question, otherThanCodec>>

LoadStep == LoadOpen \/ LoadBlank \/ LoadQuestion \/ LoadAnswer \/ LoadOption \/ LoadEnd

\* every sequence of at most n elements of S
SeqsUpTo(S, n) == UNION {[1 .. k -> S] : k \in 0 .. n}

(* The records given to save_questions: complete records whose texts are     *)
(* trimmed and single-line (some empty, some looking like a prefix),         *)
(* records with an untrimmed, multi-line or prefixed text, and a record      *)
(* with 3 options and no correct letter.                                     *)
PlainOptions == << <<"x">>, <<"y">>, <<"z">>, <<"w">> >>
TrickyOptions ==
    << <<>>, <<"B", ".">>, AnswerPrefix \o <<" ", "C">>, <<"x", " ", "y">> >>
TrimmedRecords ==
    {[question |-> q, options |-> o, correct |-> <<c>>] :
        q \in {<<"q">>, <<"q", ":", " ", "r">>},
        o \in {PlainOptions, TrickyOptions},
        c \in {"A", "D"}}
OddRecords ==
    { [question |-> <<" ", "q">>, options |-> PlainOptions, correct |-> <<"B">>],
      [question |-> <<"q">>, correct |-> <<"B">>,
       options |-> << <<" ", "x">>, <<"y">>, <<"z">>, <<"w", " ">> >>],
      [question |-> <<"q">>, correct |-> <<"C">>,
       options |-> << <<"x">>, <<"y", NL, "z">>, <<"z">>, <<"w">> >>],
      [question |-> <<"A", ".", " ", "q">>, options |-> PlainOptions,
       correct |-> <<"B">>],
      [question |-> <<"q", NL, "r">>, options |-> PlainOptions, correct |-> <<"A">>],
      [question |-> <<"q">>, options |-> << <<"x">>, <<"y">>, <<"z">> >>,
       correct |-> None] }
RecordPool == TrimmedRecords \cup OddRecords

InitCodec ==
    /\ pc = "save"
    /\ ChunkIdle
    /\ GenIdle
    /\ MainIdle
    /\ RunIdle
    /\ records \in SeqsUpTo(RecordPool, MaxRecords)
    /\ file = <<>>
    /\ lines = <<>>
    /\ i = 0
    /\ current_question = NoQuestion
    /\ questions = <<>>

NextCodec == Save \/ SaveValidated \/ LoadStep

\* save_questions or save_validated_questions, followed by load_questions
\* of the file written
SpecCodec == InitCodec /\ [][NextCodec]_vars

(* The files given to load_questions alone: up to MaxBlocks blocks, each a   *)
(* few lines, well-formed or malformed, with or without a closing blank line *)
QLine == <<"Q", " ", "r">>
RLine == <<"r">>
OptLine(l) == <<l, ".", " ", "o", l>>
AnsLine(v) == AnswerPrefix \o <<" ">> \o v
FourOptions == <<OptLine("A"), OptLine("B"), OptLine("C"), OptLine("D")>>
BlockPool ==
    { <<QLine>> \o FourOptions \o <<AnsLine(<<"B">>), <<>>>>,
      <<RLine>> \o FourOptions \o <<AnsLine(<<"D">>)>>,
      <<QLine>> \o FourOptions \o << <<>> >>,
      <<RLine>> \o FourOptions,
      <<QLine>> \o FourOptions \o <<AnsLine(<<"E">>), <<>>>>,
      <<QLine>> \o FourOptions \o <<AnswerPrefix, <<>>>>,
      <<QLine>> \o FourOptions \o <<AnsLine(<<"A", "B">>), <<>>>>,
      <<QLine, OptLine("A"), OptLine("B"), OptLine("C"), AnsLine(<<"A">>), <<>>>>,
      <<QLine, OptLine("A"), OptLine("C"), OptLine("B"), OptLine("D"),
        AnsLine(<<"A">>), <<>>>>,
      <<OptLine("B"), AnsLine(<<"C">>), <<>>>> }

\* the text of a block: every line followed by a line end
LinesText(ls) == Flatten([k \in 1 .. Len(ls) |-> ls[k] \o <<NL>>])
Files == {Flatten([k \in 1 .. Len(bs) |-> LinesText(bs[k])]) :
             bs \in SeqsUpTo(BlockPool, MaxBlocks)}

InitLoad ==
    /\ pc = "open"
    /\ ChunkIdle
    /\ GenIdle
    /\ MainIdle
    /\ RunIdle
    /\ records = <<>>
    /\ file \in Files
    /\ lines = <<>>
    /\ i = 0
    /\ current_question = NoQuestion
    /\ questions = <<>>

NextLoad == LoadStep

\* load_questions on an arbitrary file
SpecLoad == InitLoad /\ [][NextLoad]_vars

---------------------------------------------------------------------------
(* Claims about save_questions and load_questions                           *)

AnswerLetters == {<<"A">>, <<"B">>, <<"C">>, <<"D">>}

\* a record as the round-trip claim describes it: a single-line non-empty
\* question with no option or ANSWER: prefix, 4 options, correct in A..D
WellFormed(r) ==
    /\ r.question # <<>>
    /\ \A k \in 1 .. Len(r.question) : r.question[k] # NL
    /\ ~IsOptionLine(r.question) /\ ~IsAnswerLine(r.question)
    /\ Len(r.options) = 4
    /\ r.correct \in AnswerLetters

\* no whitespace at either end of the question and of every option, and no
\* line break inside an option
TrimmedSingleLine(r) ==
    /\ Strip(r.question) = r.question
    /\ \A k \in 1 .. Len(r.options) :
        /\ Strip(r.options[k]) = r.options[k]
        /\ \A j \in 1 .. Len(r.options[k]) : r.options[k][j] # NL

\* C1 as stated: load_questions of the file save_questions wrote returns the
\* records saved, for every list of well-formed records.
C1_RoundTripEveryWellFormed ==
    (pc = "loaded" /\ \A k \in 1 .. Len(records) : WellFormed(records[k]))
        => questions = records

\* C1 (round trip), amended: load_questions of the file save_questions wrote
\* returns the records saved, equal and in order, for every list of
\* well-formed records whose question and options have no whitespace at
\* either end and whose options hold no line break.
C1_RoundTrip ==
    (pc = "loaded" /\ \A k \in 1 .. Len(records) :
                          WellFormed(records[k]) /\ TrimmedSingleLine(records[k]))
        => questions = records

\* C1 witness: two different trimmed well-formed records, one with an empty
\* option and options that look like prefixes, came back equal and in order
C1_Witness ==
    /\ pc = "loaded"
    /\ Len(records) = 2 /\ records[1] # records[2]
    /\ \A k \in 1 .. 2 : WellFormed(records[k]) /\ TrimmedSingleLine(records[k])
    /\ records[1].options = TrickyOptions
    /\ questions = records

\* C7 as stated, for load_questions: a record whose ANSWER: line carries a
\* value outside A..D is not returned.
C7_LoadRejectsInvalidAnswer ==
    \A k \in 1 .. Len(questions) :
        questions[k].correct # None => questions[k].correct \in AnswerLetters

\* C8 as stated: every record load_questions returns is complete (4 options
\* and correct in A..D); a block without an ANSWER: line is discarded.
C8_LoadedRecordsComplete ==
    \A k \in 1 .. Len(questions) :
        /\ Len(questions[k].options) = 4
        /\ questions[k].correct \in AnswerLetters

RECURSIVE Paragraphs(_, _)
\* the runs of non-blank stripped lines of a file, cur the run being read
Paragraphs(ls, cur) ==
    IF ls = <<>> THEN (IF cur = <<>> THEN <<>> ELSE <<cur>>)
    ELSE IF Strip(Head(ls)) = <<>>
         THEN (IF cur = <<>> THEN <<>> ELSE <<cur>>) \o Paragraphs(Tail(ls), <<>>)
         ELSE Paragraphs(Tail(ls), Append(cur, Strip(Head(ls))))

\* a well-formed block: a question line, the option lines A. B. C. D. in
\* order, an ANSWER: line with a letter in A..D
WellFormedBlock(b) ==
    /\ Len(b) = 6
    /\ ~IsOptionLine(b[1]) /\ ~IsAnswerLine(b[1])
    /\ \A k \in 1 .. 4 : StartsWith(b[k + 1], <<Letters[k], ".">>)
    /\ IsAnswerLine(b[6])
    /\ Strip(SubSeq(b[6], Len(AnswerPrefix) + 1, Len(b[6]))) \in AnswerLetters

\* the record a well-formed block stands for
RecordOfBlock(b) ==
    [question |-> b[1],
     options |-> [k \in 1 .. 4 |-> Strip(SubSeq(b[k + 1], 3, Len(b[k + 1])))],
     correct |-> Strip(SubSeq(b[6], Len(AnswerPrefix) + 1, Len(b[6])))]

RECURSIVE WellFormedRecords(_)
\* the records of the well-formed blocks of a list of blocks, in order
WellFormedRecords(bs) ==
    IF bs = <<>> THEN <<>>
    ELSE IF WellFormedBlock(Head(bs))
         THEN <<RecordOfBlock(Head(bs))>> \o WellFormedRecords(Tail(bs))
         ELSE WellFormedRecords(Tail(bs))

RECURSIVE IsSubsequence(_, _)
\* a occurs in b, in order
IsSubsequence(a, b) ==
    IF a = <<>> THEN TRUE
    ELSE IF b = <<>> THEN FALSE
    ELSE IF Head(a) = Head(b) THEN IsSubsequence(Tail(a), Tail(b))
    ELSE IsSubsequence(a, Tail(b))

\* C12 (malformed-record policy): load_questions never raises, and the
\* records of the well-formed blocks of the file (blocks delimited by blank
\* lines or the file's ends) are all returned, in file order, whatever
\* malformed blocks stand before or after them.
C12_MalformedRecordPolicy ==
    /\ pc # "raised"
    /\ pc = "loaded" =>
          IsSubsequence(WellFormedRecords(Paragraphs(ReadLines(file), <<>>)),
                        questions)

\* C12 witness: a file of a malformed block followed by a well-formed one
\* was read to its end and the record of the well-formed block returned
C12_Witness ==
    /\ pc = "loaded"
    /\ Len(Paragraphs(ReadLines(file), <<>>)) = 2
    /\ ~WellFormedBlock(Paragraphs(ReadLines(file), <<>>)[1])
    /\ WellFormedBlock(Paragraphs(ReadLines(file), <<>>)[2])
    /\ questions # <<>>
    /\ questions[Len(questions)] =
          RecordOfBlock(Paragraphs(ReadLines(file), <<>>)[2])

\* C23 (lossy overwrite): a step of load_questions on a line that is not
\* blank and starts with neither an option prefix nor ANSWER: leaves the
\* result as it is and replaces the accumulator, whatever it held, by a new
\* record of that line; the result changes only at a blank line or at the
\* end of the lines, by the append of the accumulator.
C23_LossyOverwrite ==
    [][/\ (/\ pc = "load" /\ i < Len(lines)
           /\ Line # <<>> /\ ~IsOptionLine(Line) /\ ~IsAnswerLine(Line)) =>
              /\ questions' = questions
              /\ current_question' =
                    [question |-> Line, options |-> <<>>, correct |-> None]
       /\ questions' # questions =>
              /\ pc = "load"
              /\ (i >= Len(lines) \/ Line = <<>>)
              /\ questions' = Append(questions, current_question)]_vars

\* C23 witness: a question line has just replaced an accumulator that held
\* 4 options and an answer, and nothing was appended
C23_Witness ==
    /\ pc = "load"
    /\ i >= 7
    /\ IsAnswerLine(Strip(lines[i - 1]))
    /\ \A k \in 1 .. 4 : IsOptionLine(Strip(lines[i - 1 - k]))
    /\ ~IsOptionLine(Strip(lines[i - 6])) /\ ~IsAnswerLine(Strip(lines[i - 6]))
    /\ Strip(lines[i - 6]) # <<>>
    /\ current_question =
          [question |-> Strip(lines[i]), options |-> <<>>, correct |-> None]
    /\ questions = <<>>

---------------------------------------------------------------------------
(* question_generator.QuestionGenerator                                     *)

RECURSIVE Join(_, _)
\* sep.join(ls)
Join(ls, sep) ==
    IF ls = <<>> THEN <<>>
    ELSE IF Len(ls) = 1 THEN ls[1]
    ELSE ls[1] \o sep \o Join(Tail(ls), sep)

\* re.match(r'^[A-D]\.', line)
MatchesOption(l) ==
    Len(l) >= 2 /\ l[1] \in {"A", "B", "C", "D"} /\ l[2] = "."

RECURSIVE SplitLoop(_, _, _, _)
\* the loop over response_content.split('\n') and the flush after it:
\* ls the lines left, qs questions, cur current_lines, ans answer_line
SplitLoop(ls, qs, cur, ans) ==
    IF ls = <<>>
    THEN IF cur # <<>> /\ ans # None
         THEN Append(qs, Join(Append(cur, ans), <<NL>>))
         ELSE qs
    ELSE LET line == Strip(Head(ls)) IN
         IF line = <<>> THEN SplitLoop(Tail(ls), qs, cur, ans)
         ELSE IF IsAnswerLine(line)
         THEN IF cur # <<>>
              THEN SplitLoop(Tail(ls), Append(qs, Join(Append(cur, line), <<NL>>)),
                             <<>>, None)
              ELSE SplitLoop(Tail(ls), qs, cur, line)
         ELSE IF ~MatchesOption(line) /\ ans # None
         THEN SplitLoop(Tail(ls), qs, <<line>>, None)
         ELSE SplitLoop(Tail(ls), qs, Append(cur, line), ans)

\* the potential questions of a response
SplitQuestions(content) ==
    SplitLoop(Split(content, NL), <<>>, <<>>, None)

RECURSIVE Components(_, _, _)
\* _parse_question: the scan that fills components; part is current_part
Components(ls, comp, part) ==
    IF ls = <<>> THEN comp
    ELSE LET line == Strip(Head(ls)) IN
         IF line = <<>> THEN Components(Tail(ls), comp, part)
         ELSE IF IsAnswerLine(line)
         THEN Components(Tail(ls), [comp EXCEPT !.answer = line], part)
         ELSE IF MatchesOption(line)
         THEN Components(Tail(ls),
                         [comp EXCEPT !.options = Append(comp.options, line)],
                         "options")
         ELSE IF part = "question"
         THEN Components(Tail(ls),
                         [comp EXCEPT !.question = Append(comp.question, line)],
                         part)
         ELSE Components(Tail(ls), comp, part)

\* option_dict: the text stored under a prefix (the last such line wins), or
\* None when no option line carries the prefix
OptionDict(opts, letter) ==
    LET hits == {k \in 1 .. Len(opts) : Slice(opts[k], 0, 2) = <<letter, ".">>}
    IN  IF hits = {} THEN None
        ELSE Strip(Slice(opts[CHOOSE k \in hits : \A j \in hits : j <= k],
                         2, Len(opts[CHOOSE k \in hits : \A j \in hits : j <= k])))

\* re.match(r'^ANSWER:\s*([A-D])$', answer): group(1), or None
AnswerMatch(a) ==
    LET rest == LStrip(Slice(a, Len(AnswerPrefix), Len(a)))
    IN  IF StartsWith(a, AnswerPrefix) /\ rest \in {<<"A">>, <<"B">>, <<"C">>, <<"D">>}
        THEN rest ELSE None

\* _parse_question(text): the parsed question, or NoQuestion for None
ParseQuestion(q_text) ==
    LET comp == Components(Split(q_text, NL),
                           [question |-> <<>>, options |-> <<>>, answer |-> None],
                           "question")
        cleaned == [k \in 1 .. 4 |-> OptionDict(comp.options, Chr65(k - 1))]
    IN  IF comp.question = <<>> \/ Len(comp.options) # 4 \/ comp.answer = None
        THEN NoQuestion
        ELSE IF \E k \in 1 .. 4 : cleaned[k] = None THEN NoQuestion
        ELSE IF AnswerMatch(comp.answer) = None THEN NoQuestion
        ELSE [question |-> Strip(Join(comp.question, <<" ">>)),
              options |-> cleaned,
              correct |-> AnswerMatch(comp.answer)]

RECURSIVE ParsedOf(_)
\* the loop over questions: the parsed questions, failures left out
ParsedOf(qs) ==
    IF qs = <<>> THEN <<>>
    ELSE IF ParseQuestion(Head(qs)) # NoQuestion
         THEN <<ParseQuestion(Head(qs))>> \o ParsedOf(Tail(qs))
         ELSE ParsedOf(Tail(qs))

\* a variant that counts every attempt as valid
ValidCountAll(qs) == Len(qs)

\* the increments of total_valid_questions in the loop over questions: one
\* for every question parsed
ValidCount(qs) == Len(ParsedOf(qs))

(* The responses of the model: texts of one or two blocks                   *)
GenResponses ==
    {Flatten([k \in 1 .. Len(bs) |-> LinesText(bs[k])]) :
        bs \in {<<b>> : b \in BlockPool} \cup
               { <<b1, b2>> : b1 \in {<<QLine>> \o FourOptions \o << <<>> >>,
                                      <<QLine>> \o FourOptions \o <<AnsLine(<<"B">>), <<>>>>},
                              b2 \in {<<RLine>> \o FourOptions \o <<AnsLine(<<"D">>)>>,
                                      <<OptLine("B"), AnsLine(<<"C">>), <<>>>>} }}

\* the service is down, the request fails or the body is no JSON: the
\* exception is logged and raised again
GenerateRaise ==
    /\ pc = "generate" /\ gen_calls < MaxCalls
    /\ gen_calls' = gen_calls + 1
    /\ gen_outcome' = "raised"
    /\ response_content' = <<>>
    /\ UNCHANGED <<pc, gen_questions, parsed_questions, total_valid_questions,
                   total_attempts, otherThanGen>>

\* the response has no message.content: return []
GenerateNoContent ==
    /\ pc = "generate" /\ gen_calls < MaxCalls
    /\ gen_calls' = gen_calls + 1
    /\ gen_outcome' = "returned"
    /\ response_content' = <<>>
    /\ parsed_questions' = <<>>
    /\ UNCHANGED <<pc, gen_questions, total_valid_questions, total_attempts,
                   otherThanGen>>

\* the response has content: split it, count, parse, return parsed_questions
GenerateParse ==
    /\ pc = "generate" /\ gen_calls < MaxCalls
    /\ \E content \in GenResponses :
        LET qs == SplitQuestions(Strip(content)) IN
        /\ response_content' = Strip(content)
        /\ gen_questions' = qs
        /\ parsed_questions' = ParsedOf(qs)
        /\ total_attempts' = total_attempts + Len(qs)
        /\ total_valid_questions' = total_valid_questions + ValidCount(qs)
    /\ gen_calls' = gen_calls + 1
    /\ gen_outcome' = "returned"
    /\ UNCHANGED <<pc, otherThanGen>>

InitGen ==
    /\ pc = "generate"
    /\ ChunkIdle
    /\ CodecIdle
    /\ GenIdle
    /\ MainIdle
    /\ RunIdle

NextGen == GenerateRaise \/ GenerateNoContent \/ GenerateParse

\* a sequence of generate_questions calls on one QuestionGenerator
SpecGen == InitGen /\ [][NextGen]_vars

---------------------------------------------------------------------------
(* Claims about the strict parser                                           *)

\* the prefixes of the option lines of a block, in the order they occur
OptionLetterOrder(q_text) ==
    LET opts == Components(Split(q_text, NL),
                           [question |-> <<>>, options |-> <<>>, answer |-> None],
                           "question").options
    IN  [k \in 1 .. Len(opts) |-> opts[k][1]]

\* C4 as stated: a block is parsed only when its option lines carry A., B.,
\* C., D. in that order, so generate_questions returns no more questions
\* than the response has blocks with in-order options.
C4_StrictOptionOrder ==
    Len(parsed_questions) <=
        Cardinality({k \in 1 .. Len(gen_questions) :
                        OptionLetterOrder(gen_questions[k]) = <<"A", "B", "C", "D">>})

\* C7, the strict parser's half: every question generate_questions returns
\* has correct in A..D.
C7_ParseRejectsInvalidAnswer ==
    \A k \in 1 .. Len(parsed_questions) :
        parsed_questions[k].correct \in AnswerLetters

\* C24 as stated: the records of the well-formed blocks of the response
\* (a question line, the option lines A. to D. in order, an ANSWER: line
\* with a letter in A..D, blocks set apart by blank lines) are all among
\* the questions generate_questions returns, in order, whatever the other
\* blocks of the response are.
C24_BlockIsolation ==
    gen_outcome = "returned" =>
        IsSubsequence(
            WellFormedRecords(Paragraphs(Split(response_content, NL), <<>>)),
            parsed_questions)

\* C26 (statistics counters): 0 <= total_valid_questions <= total_attempts
\* at all times; a call of generate_questions lowers neither counter, a
\* call that returns raises total_valid_questions by the number of
\* questions it returns and total_attempts by the number of potential
\* questions it split off, a call that raises or finds no content leaves
\* both counters as they were.
C26_StatisticsCounters ==
    /\ [](0 <= total_valid_questions /\ total_valid_questions <= total_attempts)
    /\ [][/\ total_valid_questions' >= total_valid_questions
          /\ total_attempts' >= total_attempts
          /\ (gen_outcome' = "returned") =>
                (total_valid_questions' =
                    total_valid_questions + Len(parsed_questions'))
          /\ (gen_outcome' = "returned" /\ response_content' # <<>>) =>
                (total_attempts' = total_attempts + Len(gen_questions'))
          /\ (gen_outcome' = "raised" \/ response_content' = <<>>) =>
                (/\ total_valid_questions' = total_valid_questions
                 /\ total_attempts' = total_attempts)]_vars

\* C26 witness: after calls that returned questions and left attempts
\* unparsed, a call has failed and the counters stand as before
C26_Witness ==
    /\ gen_calls >= 2
    /\ gen_outcome = "raised"
    /\ total_valid_questions >= 2
    /\ total_attempts > total_valid_questions

\* C13 as stated, for generate_questions: a failed service call is not
\* fatal, every call of generate_questions returns a result to its caller
\* instead of raising.
C13_GenerateReturnsOnFailure ==
    gen_calls >= 1 => gen_outcome = "returned"

---------------------------------------------------------------------------
(* The relevance matcher of gift_converter.main and second_passage.main     *)

UpperLetters == <<"A", "B", "C", "D", "E", "F", "G", "H", "I", "J", "K", "L", "M",
                  "N", "O", "P", "Q", "R", "S", "T", "U", "V", "W", "X", "Y", "Z">>
LowerLetters == <<"a", "b", "c", "d", "e", "f", "g", "h", "i", "j", "k", "l", "m",
                  "n", "o", "p", "q", "r", "s", "t", "u", "v", "w", "x", "y", "z">>
Digits == {"0", "1", "2", "3", "4", "5", "6", "7", "8", "9"}

LowerChar(c) ==
    IF \E k \in 1 .. 26 : UpperLetters[k] = c
    THEN LowerLetters[CHOOSE k \in 1 .. 26 : UpperLetters[k] = c]
    ELSE c

\* s.lower()
Lower(s) == [k \in 1 .. Len(s) |-> LowerChar(s[k])]

RECURSIVE WordList(_, _)
\* s.split(): the maximal runs of non-whitespace, cur the run being read
WordList(s, cur) ==
    IF s = <<>> THEN (IF cur = <<>> THEN <<>> ELSE <<cur>>)
    ELSE IF Head(s) \in Whitespace
         THEN (IF cur = <<>> THEN <<>> ELSE <<cur>>) \o WordList(Tail(s), <<>>)
         ELSE WordList(Tail(s), Append(cur, Head(s)))

\* set(s.lower().split())
Words(s) == {WordList(Lower(s), <<>>)[k] : k \in 1 .. Len(WordList(Lower(s), <<>>))}

\* overlap = len(question_words & chunk_words)
Overlap(question_text, chunk) == Cardinality(Words(question_text) \cap Words(chunk))

\* a comparison that also replaces the chunk held on an equal score
ExceedsOrEquals(overlap, best) == overlap >= best

\* if overlap > max_overlap
Exceeds(overlap, best) == overlap > best

RECURSIVE BestScan(_, _, _, _, _)
\* gift_converter.main: the scan "for chunk in large_chunks" from chunk k on,
\* held the index of most_relevant_chunk (0 for None), best max_overlap
BestScan(question_text, cs, k, held, best) ==
    IF k > Len(cs) THEN [chunk |-> held, max_overlap |-> best]
    ELSE IF Exceeds(Overlap(question_text, cs[k]), best)
         THEN BestScan(question_text, cs, k + 1, k, Overlap(question_text, cs[k]))
         ELSE BestScan(question_text, cs, k + 1, held, best)

RECURSIVE SecondBestScan(_, _, _, _, _)
\* second_passage.main: the same scan
SecondBestScan(question_text, cs, k, held, best) ==
    IF k > Len(cs) THEN [chunk |-> held, max_overlap |-> best]
    ELSE IF Exceeds(Overlap(question_text, cs[k]), best)
         THEN SecondBestScan(question_text, cs, k + 1, k, Overlap(question_text, cs[k]))
         ELSE SecondBestScan(question_text, cs, k + 1, held, best)

---------------------------------------------------------------------------
(* gift_converter.GiftConverter                                             *)

\* the fixed strings, each held as one unit of text
Placeholder == <<"Consultare il Codice Civile per il testo completo">>
ConsultArticle(article) ==
    <<"Consultare l'articolo ">> \o article
        \o <<" del Codice Civile per il testo completo">>

FeedbackPrefix == <<"F", "E", "E", "D", "B", "A", "C", "K", "_">>
OptionKeys == {"A", "B", "C", "D"}

RECURSIVE FeedbackScan(_, _, _)
\* the loop over result.split('\n'): fb feedbacks, cur current_feedback
\* ("" for None or an empty letter); the result is NoQuestion-like
\* [none |-> TRUE] when feedbacks[current_feedback] raises KeyError
FeedbackScan(ls, fb, cur) ==
    IF ls = <<>> THEN fb
    ELSE LET stripped == Strip(Head(ls))
             isHead == StartsWith(stripped, FeedbackPrefix)
             letter == IF isHead
                       THEN (IF Len(stripped) >= 10 THEN stripped[10] ELSE "")
                       ELSE cur
             line == IF isHead THEN Strip(Slice(stripped, 12, Len(stripped)))
                     ELSE stripped
         IN  IF letter # "" /\ line # <<>>
             THEN IF letter \notin OptionKeys THEN [none |-> TRUE]
                  ELSE FeedbackScan(Tail(ls),
                          [fb EXCEPT ![letter] =
                              IF fb[letter] # <<>> THEN fb[letter] \o <<" ">> \o line
                              ELSE line],
                          letter)
             ELSE FeedbackScan(Tail(ls), fb, letter)

\* '"' in feedback or "'" in feedback
HasQuote(f) == \E k \in 1 .. Len(f) : f[k] \in {"\"", "'"}

IsLetter(c) == \E k \in 1 .. 26 : c = UpperLetters[k] \/ c = LowerLetters[k]

RECURSIVE RunLength(_, _, _)
\* the length of the longest run of characters of f from position p (1-based)
\* that are digits (kind "d") or letters (kind "l")
RunLength(f, p, kind) ==
    IF p > Len(f) THEN 0
    ELSE IF (kind = "d" /\ f[p] \in Digits) \/ (kind = "l" /\ IsLetter(f[p]))
         THEN 1 + RunLength(f, p + 1, kind)
         ELSE 0

\* re.search(r'articolo (\d+(?:-[a-z]+)?)', feedback, re.IGNORECASE):
\* group(1) of the first match, or None
ArticleMatch(f) ==
    LET word == <<"a", "r", "t", "i", "c", "o", "l", "o", " ">>
        starts == {p \in 1 .. Len(f) :
                      /\ Slice(Lower(f), p - 1, p + 8) = word
                      /\ RunLength(f, p + 9, "d") > 0}
    IN  IF starts = {} THEN None
        ELSE LET p == CHOOSE q \in starts : \A r \in starts : q <= r
                 d == RunLength(f, p + 9, "d")
                 dash == p + 9 + d
                 l == IF dash <= Len(f) /\ f[dash] = "-"
                      THEN RunLength(f, dash + 1, "l") ELSE 0
             IN  SubSeq(f, p + 9, IF l > 0 THEN dash + l ELSE dash - 1)

\* the loop "Validate feedbacks contain citations" on one entry
Cited(f) ==
    IF ~HasQuote(f) /\ ArticleMatch(f) # None THEN ConsultArticle(ArticleMatch(f))
    ELSE f

\* feedbacks as it stands at line 155, or [none |-> TRUE] after a KeyError
ParsedFeedbacks(result) ==
    LET fb == FeedbackScan(Split(result, NL), [l \in OptionKeys |-> <<>>], "")
    IN  IF fb = [none |-> TRUE] THEN fb
        ELSE [l \in OptionKeys |-> Cited(fb[l])]

RECURSIVE WrongOf(_, _, _)
\* wrong_feedback: the non-empty entries of the letters other than correct
WrongOf(fb, letters, correct_letter) ==
    IF letters = <<>> THEN <<>>
    ELSE IF <<Head(letters)>> # correct_letter /\ fb[Head(letters)] # <<>>
         THEN <<fb[Head(letters)]>> \o WrongOf(fb, Tail(letters), correct_letter)
         ELSE WrongOf(fb, Tail(letters), correct_letter)

\* generate_feedback: (correct_feedback, wrong_feedback) for an outcome of
\* the service call, which is "fail" or the text of the response
GenerateFeedback(question, outcome) ==
    LET both == [correct_feedback |-> <<Placeholder>>,
                 wrong_feedback |-> <<Placeholder>>]
        fb == ParsedFeedbacks(Strip(outcome))
    IN  IF outcome = <<"fail">> THEN both
        ELSE IF fb = [none |-> TRUE] THEN both
        ELSE IF question.correct \notin {<<l>> : l \in OptionKeys} THEN both
        ELSE [correct_feedback |->
                  IF fb[question.correct[1]] # <<>>
                  THEN <<fb[question.correct[1]]>> ELSE <<Placeholder>>,
              wrong_feedback |->
                  IF WrongOf(fb, <<"A", "B", "C", "D">>, question.correct) # <<>>
                  THEN WrongOf(fb, <<"A", "B", "C", "D">>, question.correct)
                  ELSE <<Placeholder>>]

\* a variant in which wrong_idx is never incremented
WrongIdxStuck(question, k) == 0

\* wrong_idx when option k (1-based) is reached: the wrong options before it
WrongIdx(question, k) ==
    Cardinality({j \in 1 .. (k - 1) : <<Chr65(j - 1)>> # question.correct})

\* convert_to_gift after generate_feedback returned: the block, held as the
\* question of its "::Q:: ..." line and its tokens " {mark}{option} # {feedback}"
GiftBlock(question, cf, wf) ==
    [question |-> question.question,
     tokens |->
        [k \in 1 .. Len(question.options) |->
            IF <<Chr65(k - 1)>> = question.correct
            THEN [mark |-> "=", option |-> question.options[k],
                  feedback |-> IF cf # <<>> THEN cf[1] ELSE Placeholder]
            ELSE [mark |-> "~", option |-> question.options[k],
                  feedback |-> IF WrongIdx(question, k) < Len(wf)
                               THEN wf[WrongIdx(question, k) + 1]
                               ELSE Placeholder]]]

---------------------------------------------------------------------------
(* second_passage.QuestionValidator                                         *)

RECURSIVE ImprovedScan(_, _)
\* the loop over lines[1:] that fills improved_question
ImprovedScan(ls, improved) ==
    IF ls = <<>> THEN improved
    ELSE LET line == Strip(Head(ls)) IN
         IF IsOptionLine(line)
         THEN ImprovedScan(Tail(ls),
                  [improved EXCEPT !.options =
                      Append(improved.options, Strip(Slice(line, 2, Len(line))))])
         ELSE IF IsAnswerLine(line)
         THEN ImprovedScan(Tail(ls),
                  [improved EXCEPT !.correct = Strip(Split(line, ":")[2])])
         ELSE ImprovedScan(Tail(ls), improved)

\* validate_and_improve_question for an outcome of the service call, which
\* is "fail" or the text of the response
ValidateAndImprove(question, outcome) ==
    LET result == Strip(outcome)
        ls == Split(result, NL)
        improved == ImprovedScan(Tail(ls),
                        [question |-> Strip(ls[1]), options |-> <<>>,
                         correct |-> None])
    IN  IF outcome = <<"fail">> THEN question
        ELSE IF result = <<"O", "K">> THEN question
        ELSE IF Len(improved.options) = 4 /\ improved.correct \notin {None, <<>>}
             THEN improved
             ELSE question

---------------------------------------------------------------------------
(* gift_converter.main and second_passage.main: the loop over the questions *)

FeedbackLine(l, body) == FeedbackPrefix \o <<l, ":", " ">> \o body
Quoted(l) == <<"'", l, "'">>

\* what the feedback call may end with: a failure, or a response text
FeedbackOutcomes ==
    { <<"fail">>,
      LinesText(<<FeedbackLine("A", Quoted("a")), FeedbackLine("B", Quoted("b")),
                  FeedbackLine("C", Quoted("c")), FeedbackLine("D", Quoted("d"))>>),
      LinesText(<<FeedbackLine("A", Quoted("a")), FeedbackLine("C", Quoted("c")),
                  FeedbackLine("D", Quoted("d"))>>),
      LinesText(<<FeedbackLine("B", <<"v">>), <<"A", "r", "t", "i", "c", "o", "l",
                  "o", " ", "1", "2", "-", "b", "i", "s", ".">>,
                  FeedbackLine("D", <<>>)>>),
      LinesText(<< <<"j", "u", "n", "k">> >>),
      LinesText(<<FeedbackLine("B", Quoted("b")), FeedbackLine("E", <<"x">>)>>) }

\* what the validation call may end with
ValidationOutcomes ==
    { <<"fail">>,
      <<"O", "K", NL>>,
      LinesText(<<RLine>> \o FourOptions \o <<AnsLine(<<"D">>)>>),
      LinesText(<<RLine>> \o FourOptions \o <<AnsLine(<<"E">>)>>),
      LinesText(<<RLine>> \o FourOptions),
      LinesText(<<QLine, OptLine("A"), OptLine("B"), OptLine("C"), AnsLine(<<"A">>)>>) }

ChunkPool ==
    { <<"q">>, <<"Q", " ", "r">>, <<"r", NL, "q">>, <<"x">>, <<"q", " ", "q">> }

\* the questions files of the two scripts
MainFiles ==
    { <<>>,
      LinesText(<<QLine>> \o FourOptions \o <<AnsLine(<<"A">>)>>),
      LinesText(<<QLine>> \o FourOptions \o <<AnsLine(<<"B">>), <<>>>>
                  \o <<RLine>> \o FourOptions \o <<AnsLine(<<"D">>)>>),
      LinesText(<<QLine>> \o FourOptions),
      LinesText(<<RLine>> \o FourOptions \o <<AnsLine(<<"E">>), <<>>>>
                  \o <<QLine>> \o FourOptions \o <<AnsLine(<<"A">>)>>) }

\* the loop starts: converter or validator built, the output list empty
GiftStart ==
    /\ pc = "loaded"
    /\ pc' = "gift_main"
    /\ q_index' = 0
    /\ gift_questions' = <<>>
    /\ UNCHANGED <<large_chunks, most_relevant_chunk, max_overlap, context,
                   feedbacks, correct_feedback, wrong_feedback,
                   improved_questions, service_calls, otherThanMain>>

SecondStart ==
    /\ pc = "loaded"
    /\ pc' = "second_main"
    /\ q_index' = 0
    /\ improved_questions' = <<>>
    /\ UNCHANGED <<large_chunks, most_relevant_chunk, max_overlap, context,
                   feedbacks, correct_feedback, wrong_feedback,
                   gift_questions, service_calls, otherThanMain>>

\* a variant that falls back to the first chunk when none is held
ContextArgumentFirstChunk(held) ==
    IF held # 0 /\ large_chunks[held] # <<>> THEN large_chunks[held]
    ELSE IF large_chunks # <<>> THEN large_chunks[1] ELSE <<>>

\* the context given to convert_to_gift: most_relevant_chunk when it is
\* truthy ("if most_relevant_chunk:"), "" otherwise; held is its index
ContextArgument(held) ==
    IF held # 0 /\ large_chunks[held] # <<>> THEN large_chunks[held] ELSE <<>>

\* one iteration of gift_converter.main: match, convert_to_gift with the
\* chunk found or with "", append the block
GiftIteration ==
    /\ pc = "gift_main" /\ q_index < Len(questions)
    /\ LET question == questions[q_index + 1]
           found == BestScan(question.question, large_chunks, 1, 0, 0)
       IN  /\ most_relevant_chunk' = found.chunk
           /\ max_overlap' = found.max_overlap
           /\ context' = ContextArgument(found.chunk)
           /\ service_calls' = service_calls + 1
           /\ \E outcome \in FeedbackOutcomes :
                LET fbs == GenerateFeedback(question, outcome) IN
                /\ feedbacks' = IF outcome = <<"fail">> THEN [none |-> TRUE]
                                ELSE ParsedFeedbacks(Strip(outcome))
                /\ correct_feedback' = fbs.correct_feedback
                /\ wrong_feedback' = fbs.wrong_feedback
                /\ gift_questions' =
                      Append(gift_questions,
                             GiftBlock(question, fbs.correct_feedback,
                                       fbs.wrong_feedback))
    /\ q_index' = q_index + 1
    /\ UNCHANGED <<pc, large_chunks, improved_questions, otherThanMain>>

\* a variant that skips a question without context
AppendOriginalSkipped(question) == improved_questions

\* the else branch of "if most_relevant_chunk:" in second_passage.main:
\* improved_questions.append(question)
AppendOriginal(question) == Append(improved_questions, question)

\* one iteration of second_passage.main: match, validate with the chunk
\* found or keep the question, append
SecondIteration ==
    /\ pc = "second_main" /\ q_index < Len(questions)
    /\ LET question == questions[q_index + 1]
           found == SecondBestScan(question.question, large_chunks, 1, 0, 0)
       IN  /\ most_relevant_chunk' = found.chunk
           /\ max_overlap' = found.max_overlap
           /\ IF found.chunk # 0 /\ large_chunks[found.chunk] # <<>>
              THEN /\ context' = large_chunks[found.chunk]
                   /\ service_calls' = service_calls + 1
                   /\ \E outcome \in ValidationOutcomes :
                        improved_questions' =
                            Append(improved_questions,
                                   ValidateAndImprove(question, outcome))
              ELSE /\ context' = context
                   /\ service_calls' = service_calls
                   /\ improved_questions' = AppendOriginal(question)
    /\ q_index' = q_index + 1
    /\ UNCHANGED <<pc, large_chunks, feedbacks, correct_feedback, wrong_feedback,
                   gift_questions, otherThanMain>>

\* the loop is over: the results are saved
MainDone ==
    /\ pc \in {"gift_main", "second_main"} /\ q_index >= Len(questions)
    /\ pc' = IF pc = "gift_main" THEN "gift_done" ELSE "second_done"
    /\ UNCHANGED <<mainVars, otherThanMain>>

InitMain ==
    /\ pc = "open"
    /\ ChunkIdle
    /\ GenIdle
    /\ records = <<>>
    /\ file \in MainFiles
    /\ lines = <<>>
    /\ i = 0
    /\ current_question = NoQuestion
    /\ questions = <<>>
    /\ large_chunks \in SeqsUpTo(ChunkPool, MaxChunks)
    /\ q_index = 0
    /\ most_relevant_chunk = 0
    /\ max_overlap = 0
    /\ context = <<>>
    /\ feedbacks = [none |-> TRUE]
    /\ correct_feedback = <<>>
    /\ wrong_feedback = <<>>
    /\ gift_questions = <<>>
    /\ improved_questions = <<>>
    /\ service_calls = 0
    /\ RunIdle

NextMain ==
    LoadStep \/ GiftStart \/ SecondStart \/ GiftIteration \/ SecondIteration
        \/ MainDone

\* load_questions, then the question loop of one of the two scripts
SpecMain == InitMain /\ [][NextMain]_vars

---------------------------------------------------------------------------
(* Claims about the matcher and the GIFT converter                          *)

\* an iteration of one of the two loops has just run
Iterated ==
    pc \in {"gift_main", "second_main", "gift_done", "second_done"} /\ q_index >= 1

\* the scores of the chunks against the question processed last
ScoreOf(k) == Overlap(questions[q_index].question, large_chunks[k])
BestScore ==
    IF large_chunks = <<>> THEN 0
    ELSE CHOOSE b \in {ScoreOf(k) : k \in 1 .. Len(large_chunks)} :
            \A k \in 1 .. Len(large_chunks) : ScoreOf(k) <= b

\* C5 (relevance selection): after the scan of an iteration, in either
\* script, the chunk held has the maximum score over all chunks and is the
\* one of smallest index among the chunks with that score; max_overlap is
\* that score; no chunk is held when the maximum is 0.
C5_RelevanceSelection ==
    Iterated =>
        /\ max_overlap = BestScore
        /\ BestScore = 0 => most_relevant_chunk = 0
        /\ BestScore > 0 =>
            /\ most_relevant_chunk \in 1 .. Len(large_chunks)
            /\ ScoreOf(most_relevant_chunk) = BestScore
            /\ \A k \in 1 .. (most_relevant_chunk - 1) : ScoreOf(k) < BestScore

\* C5 witness: two chunks of different text tie at the maximum score 2
\* (after lower-casing) and the first one is held
C5_Witness ==
    /\ Iterated
    /\ Len(large_chunks) = 2
    /\ large_chunks[1] # large_chunks[2]
    /\ ScoreOf(1) = 2 /\ ScoreOf(2) = 2
    /\ most_relevant_chunk = 1

\* the block built by the last iteration of gift_converter.main and the
\* question it was built from
GiftIterated == pc \in {"gift_main", "gift_done"} /\ q_index >= 1
LastQuestion == questions[q_index]
LastBlock == gift_questions[Len(gift_questions)]

\* C6 as stated: every block built for a loaded record has exactly one "="
\* token and three "~" tokens, in the record's option order.
C6_OneCorrectToken ==
    pc \in {"gift_main", "gift_done"} =>
        \A k \in 1 .. Len(gift_questions) :
            LET tokens == gift_questions[k].tokens IN
            /\ Cardinality({j \in 1 .. Len(tokens) : tokens[j].mark = "="}) = 1
            /\ Cardinality({j \in 1 .. Len(tokens) : tokens[j].mark = "~"}) = 3
            /\ [j \in 1 .. Len(tokens) |-> tokens[j].option] = questions[k].options

\* the option positions other than c, left to right
OthersThan(c) == SelectSeq(<<1, 2, 3, 4>>, LAMBDA j : j # c)

\* C9 (annotated placement): for a complete record with correct at position
\* c, correct_feedback = [F0] and wrong_feedback = [F1, F2, F3], the token at
\* c is "=<option> # F0" and the other three, left to right, are
\* "~<option> # F1", "~<option> # F2", "~<option> # F3".
C9_AnnotatedPlacement ==
    (/\ GiftIterated
     /\ Len(LastQuestion.options) = 4
     /\ LastQuestion.correct \in AnswerLetters
     /\ Len(correct_feedback) = 1 /\ Len(wrong_feedback) = 3) =>
        LET c == CHOOSE j \in 1 .. 4 : <<Chr65(j - 1)>> = LastQuestion.correct IN
        /\ Len(LastBlock.tokens) = 4
        /\ LastBlock.tokens[c] =
              [mark |-> "=", option |-> LastQuestion.options[c],
               feedback |-> correct_feedback[1]]
        /\ \A m \in 1 .. 3 :
              LastBlock.tokens[OthersThan(c)[m]] =
                  [mark |-> "~", option |-> LastQuestion.options[OthersThan(c)[m]],
                   feedback |-> wrong_feedback[m]]

\* C9 witness: a block for a record with correct = B built from one correct
\* and three different wrong feedbacks
C9_Witness ==
    /\ GiftIterated
    /\ LastQuestion.correct = <<"B">>
    /\ Len(correct_feedback) = 1 /\ Len(wrong_feedback) = 3
    /\ Cardinality({wrong_feedback[m] : m \in 1 .. 3} \cup {correct_feedback[1]}) = 4
    /\ LastBlock.tokens[2].mark = "="

\* C10 as stated: in a block built from a parsed FEEDBACK_A..FEEDBACK_D
\* response every option carries the feedback of its own letter, or the
\* placeholder when that entry is empty.
C10_OwnFeedbackOrPlaceholder ==
    (/\ GiftIterated
     /\ feedbacks # [none |-> TRUE]
     /\ LastQuestion.correct \in AnswerLetters) =>
        \A k \in 1 .. Len(LastBlock.tokens) :
            LastBlock.tokens[k].feedback =
                IF feedbacks[Chr65(k - 1)] # <<>> THEN feedbacks[Chr65(k - 1)]
                ELSE Placeholder

\* no chunk shares a lower-cased whitespace token with question k
NoOverlap(k) ==
    \A c \in 1 .. Len(large_chunks) :
        Overlap(questions[k].question, large_chunks[c]) = 0

\* C11 (empty-overlap case): when no chunk shares a token with the question
\* (the chunk list may be empty) no chunk is held; gift_converter.main calls
\* convert_to_gift with "" as context and appends the block of that question;
\* second_passage.main appends the record as loaded and makes no service
\* call for it (the calls made are those of the questions with an overlap).
C11_EmptyOverlap ==
    /\ (Iterated /\ NoOverlap(q_index)) => most_relevant_chunk = 0
    /\ pc \in {"gift_main", "gift_done"} =>
        /\ Len(gift_questions) = q_index
        /\ (q_index >= 1 /\ NoOverlap(q_index)) =>
            /\ context = <<>>
            /\ LastBlock.question = LastQuestion.question
            /\ [j \in 1 .. Len(LastBlock.tokens) |-> LastBlock.tokens[j].option]
                  = LastQuestion.options
    /\ pc \in {"second_main", "second_done"} =>
        /\ Len(improved_questions) = q_index
        /\ \A k \in 1 .. q_index :
              NoOverlap(k) => improved_questions[k] = questions[k]
        /\ service_calls = Cardinality({k \in 1 .. q_index : ~NoOverlap(k)})

\* C11 witness: gift_converter.main built the block of a question that
\* shares no token with any of two chunks, after a service response that
\* was parsed
C11_Witness ==
    /\ pc = "gift_done" /\ q_index >= 1
    /\ Len(large_chunks) = 2
    /\ NoOverlap(q_index)
    /\ context = <<>>
    /\ feedbacks # [none |-> TRUE]
    /\ Len(gift_questions) = q_index

\* a complete and valid record: a non-empty question, exactly 4 options,
\* correct in A..D
Complete(r) ==
    /\ r.question # <<>>
    /\ Len(r.options) = 4
    /\ r.correct \in AnswerLetters

\* C14 as stated: for a complete input record, what
\* validate_and_improve_question returns is the input record itself or a
\* new record that is complete and valid.
C14_SwapOrKeepComplete ==
    pc \in {"second_main", "second_done"} =>
        \A k \in 1 .. Len(improved_questions) :
            Complete(questions[k]) =>
                \/ improved_questions[k] = questions[k]
                \/ Complete(improved_questions[k])

\* the plain format of a record, line by line
PlainLines(r) ==
    << r.question,
       <<"A", ".", " ">> \o r.options[1],
       <<"B", ".", " ">> \o r.options[2],
       <<"C", ".", " ">> \o r.options[3],
       <<"D", ".", " ">> \o r.options[4],
       <<"A", "N", "S", "W", "E", "R", ":", " ">> \o r.correct,
       <<>> >>

RECURSIVE PlainFormat(_)
\* the plain format of a list of records: the lines of each record in
\* order, every line followed by a line end
PlainFormat(rs) ==
    IF rs = <<>> THEN <<>>
    ELSE LinesText(PlainLines(Head(rs))) \o PlainFormat(Tail(rs))

\* C15 (plain serialization format): for every list of complete records,
\* the file written by save_questions and the file written by
\* save_validated_questions both hold, for each record in order, the
\* question line, the lines "A. <option>" .. "D. <option>" by option
\* position, "ANSWER: <letter>" and one blank line.
C15_PlainFormat ==
    (pc # "save" /\ \A k \in 1 .. Len(records) : Complete(records[k])) =>
        /\ file = PlainFormat(records)
        /\ SavedText(records) = file
        /\ SavedValidatedText(records) = file

\* C15 witness: a file of two different complete records has been written
C15_Witness ==
    /\ pc = "open"
    /\ Len(records) = 2 /\ records[1] # records[2]
    /\ \A k \in 1 .. 2 : Complete(records[k])
    /\ records[2].correct = <<"D">>
    /\ file = PlainFormat(records)

\* C16 as stated, for save_questions: a record with a number of options
\* other than 4 or without a correct letter in A..D gets no block in the
\* file, which holds the blocks of the other records only.
C16_SerializerRejectsInvalid ==
    pc # "save" => file = SavedText(SelectSeq(records, Complete))

\* C25 (one output per input): after every iteration of either loop the
\* output holds one entry per question processed, in the loaded order:
\* block k of gift_converter.main carries the text and the options of
\* question k, record k of second_passage.main is question k itself or what
\* validate_and_improve_question made of it; when the loop ends every
\* loaded question has been processed.
C25_OneOutputPerInput ==
    /\ pc \in {"gift_main", "gift_done"} =>
        /\ Len(gift_questions) = q_index
        /\ \A k \in 1 .. q_index :
            /\ gift_questions[k].question = questions[k].question
            /\ [j \in 1 .. Len(gift_questions[k].tokens) |->
                    gift_questions[k].tokens[j].option] = questions[k].options
    /\ pc \in {"second_main", "second_done"} =>
        /\ Len(improved_questions) = q_index
        /\ \A k \in 1 .. q_index :
            \/ improved_questions[k] = questions[k]
            \/ \E outcome \in ValidationOutcomes :
                  improved_questions[k] = ValidateAndImprove(questions[k], outcome)
    /\ pc \in {"gift_done", "second_done"} => q_index = Len(questions)

\* C25 witness: second_passage.main ended with two records for two
\* questions, the first kept for want of a chunk, the second replaced by
\* the improved record of the service
C25_Witness ==
    /\ pc = "second_done"
    /\ Len(questions) = 2 /\ Len(improved_questions) = 2
    /\ NoOverlap(1) /\ ~NoOverlap(2)
    /\ improved_questions[1] = questions[1]
    /\ improved_questions[2] # questions[2]

---------------------------------------------------------------------------
\* main.py: one run of main() after PDFExtractor.extract_text has returned

\* the length below which main() drops a chunk
MinChunkChars == 500

\* a chunk of n letters
ChunkOf(n) == [k \in 1 .. n |-> "a"]

\* extracted chunks around the threshold: exactly 500 characters, 499
\* characters, and 501 characters of which 499 are left after strip()
RunChunkPool ==
    {ChunkOf(MinChunkChars), ChunkOf(MinChunkChars - 1),
     <<" ">> \o ChunkOf(MinChunkChars - 1) \o <<" ">>}

\* the test of the list comprehension that filters text_chunks
ValidChunk(chunk) == Len(Strip(chunk)) >= MinChunkChars

\* what GoogleTranslator.translate may return for a text
Translations(t) == {t, <<"s", "i">>}

\* translate_question: the translated record with the same letter, or the
\* original record when the translation raises
TranslateQuestion(question) ==
    {question} \cup
    {[question |-> tq, options |-> [k \in 1 .. Len(question.options) |-> topt],
      correct |-> question.correct] :
        tq \in Translations(question.question), topt \in {<<"n", "o">>}}

\* translate_batch: one result per question, in order
TranslateBatch(qs) ==
    {b \in [1 .. Len(qs) -> UNION {TranslateQuestion(qs[k]) : k \in 1 .. Len(qs)}] :
        \A k \in 1 .. Len(qs) : b[k] \in TranslateQuestion(qs[k])}

\* the filter, the new QuestionGenerator and the initial counters
RunFilter ==
    /\ pc = "run_extracted"
    /\ text_chunks' = SelectSeq(text_chunks, ValidChunk)
    /\ all_questions' = <<>>
    /\ total_questions' = 0
    /\ total_chunks' = Len(SelectSeq(text_chunks, ValidChunk))
    /\ run_i' = 0
    /\ pc' = "run_loop"
    /\ UNCHANGED <<warned, chunkVars, codecVars, genVars, mainVars>>

\* one turn of the loop in which generate_questions raises: the exception
\* reaches the handler of main(), which logs it and raises it again
RunChunkRaise ==
    /\ pc = "run_loop" /\ run_i < Len(text_chunks)
    /\ gen_calls' = gen_calls + 1
    /\ gen_outcome' = "raised"
    /\ response_content' = <<>>
    /\ pc' = "run_raised"
    /\ UNCHANGED <<gen_questions, parsed_questions, total_valid_questions,
                   total_attempts, runVars, chunkVars, codecVars, mainVars>>

\* one turn of the loop in which the response has no content:
\* generate_questions returns []
RunChunkNoContent ==
    /\ pc = "run_loop" /\ run_i < Len(text_chunks)
    /\ gen_calls' = gen_calls + 1
    /\ gen_outcome' = "returned"
    /\ response_content' = <<>>
    /\ parsed_questions' = <<>>
    /\ run_i' = run_i + 1
    /\ UNCHANGED <<pc, gen_questions, total_valid_questions, total_attempts,
                   text_chunks, all_questions, total_questions, total_chunks,
                   warned, chunkVars, codecVars, mainVars>>

\* one turn of the loop in which generate_questions returns its parsed
\* questions
RunChunk ==
    /\ pc = "run_loop" /\ run_i < Len(text_chunks)
    /\ \E content \in GenResponses :
        LET qs == SplitQuestions(Strip(content)) IN
        /\ response_content' = Strip(content)
        /\ gen_questions' = qs
        /\ parsed_questions' = ParsedOf(qs)
        /\ total_attempts' = total_attempts + Len(qs)
        /\ total_valid_questions' = total_valid_questions + ValidCount(qs)
        /\ total_questions' = total_questions + Len(ParsedOf(qs))
        /\ all_questions' = all_questions \o ParsedOf(qs)
    /\ gen_calls' = gen_calls + 1
    /\ gen_outcome' = "returned"
    /\ run_i' = run_i + 1
    /\ UNCHANGED <<pc, text_chunks, total_chunks, warned, chunkVars, codecVars,
                   mainVars>>

\* the statistics after the loop: total_questions / total_chunks raises
\* ZeroDivisionError when no chunk was kept, and the handler of main() logs
\* it and raises it again
RunStatistics ==
    /\ pc = "run_loop" /\ run_i >= Len(text_chunks)
    /\ pc' = IF total_chunks = 0 THEN "run_raised" ELSE "run_translate"
    /\ UNCHANGED <<runVars, chunkVars, codecVars, genVars, mainVars>>

\* all_questions is not empty: translate_batch, then save_questions
RunTranslateSave ==
    /\ pc = "run_translate" /\ all_questions # <<>>
    /\ \E translated_questions \in TranslateBatch(all_questions) :
        file' = SavedText(translated_questions)
    /\ pc' = "run_done"
    /\ UNCHANGED <<runVars, chunkVars, genVars, mainVars, records, lines, i,
                   current_question, questions>>

\* all_questions is empty: the warning
RunWarn ==
    /\ pc = "run_translate" /\ all_questions = <<>>
    /\ warned' = TRUE
    /\ pc' = "run_done"
    /\ UNCHANGED <<text_chunks, run_i, all_questions, total_questions,
                   total_chunks, chunkVars, codecVars, genVars, mainVars>>

InitRun ==
    /\ pc = "run_extracted"
    /\ ChunkIdle
    /\ CodecIdle
    /\ GenIdle
    /\ MainIdle
    /\ text_chunks \in SeqsUpTo(RunChunkPool, MaxChunks)
    /\ run_i = 0
    /\ all_questions = <<>>
    /\ total_questions = 0
    /\ total_chunks = 0
    /\ warned = FALSE

NextRun ==
    \/ RunFilter
    \/ RunChunkRaise
    \/ RunChunkNoContent
    \/ RunChunk
    \/ RunStatistics
    \/ RunTranslateSave
    \/ RunWarn

\* one run of main() on the chunks the extractor returned
SpecRun == InitRun /\ [][NextRun]_vars

\* C27: a run of main() in which no chunk of at least 500 characters is
\* left ends at the "No questions were generated from the text" warning and
\* completes, it does not raise
C27_NoChunkRunCompletes ==
    (pc \in {"run_done", "run_raised"} /\ total_chunks = 0)
        => (pc = "run_done" /\ warned)

===========================================================================
